---------------------------- MODULE Spec2Model ----------------------------
(***************************************************************************)
(* ALDR Bot: the spreadsheet monitor (monitor.py).  The monitor polls a    *)
(* sheet, diffs each level's victors against the victors recorded at the   *)
(* previous successful poll and sends one webhook message per new victor.  *)
(*                                                                         *)
(* Text is modelled as a sequence of one-character strings, so that        *)
(* str.strip, str.split and sorted are computed rather than assumed.       *)
(***************************************************************************)
EXTENDS Integers, Sequences, FiniteSets, TLC

(***************************************************************************)
(* Bounds of the model.                                                    *)
(***************************************************************************)
\* Largest number of data rows (rows after the header) of a fetched sheet.
MaxRows == 2

(***************************************************************************)
(* COLUMN_MAP (monitor.py:14-30): zero-based field positions.              *)
(***************************************************************************)
ALDR_ID == 0
LEVEL_NAME == 1
CREATOR == 2
DIFFICULTY == 3
VICTORS == 10
\* len(COLUMN_MAP): the length rows are padded to.
NumColumns == 15

(***************************************************************************)
(* Text helpers.                                                           *)
(***************************************************************************)
Range(s) == {s[i] : i \in 1..Len(s)}

\* The empty string ''.
Empty == <<>>

\* ord(c) for the characters the model uses.
CharCode(c) ==
    CASE c = " " -> 32
      [] c = "," -> 44
      [] c = "1" -> 49
      [] c = "2" -> 50
      [] c = "3" -> 51
      [] c = "C" -> 67
      [] c = "L" -> 76
      [] c = "N" -> 78
      [] c = "a" -> 97
      [] c = "b" -> 98

IsSpace(c) == c = " "

RECURSIVE LStrip(_)
LStrip(t) ==
    IF t = Empty THEN Empty
    ELSE IF IsSpace(Head(t)) THEN LStrip(Tail(t)) ELSE t

RECURSIVE RStrip(_)
RStrip(t) ==
    IF t = Empty THEN Empty
    ELSE IF IsSpace(t[Len(t)]) THEN RStrip(SubSeq(t, 1, Len(t) - 1)) ELSE t

\* str.strip()
Strip(t) == RStrip(LStrip(t))

\* str.split(','): the pieces between commas; '' splits to [''].
RECURSIVE Split(_)
Split(t) ==
    IF \A i \in 1..Len(t) : t[i] # ","
    THEN <<t>>
    ELSE LET i == CHOOSE k \in 1..Len(t) :
                      t[k] = "," /\ \A j \in 1..(k - 1) : t[j] # ","
         IN  <<SubSeq(t, 1, i - 1)>> \o Split(SubSeq(t, i + 1, Len(t)))

\* s < t for Python strings: lexicographic by code point.
RECURSIVE LexLess(_, _)
LexLess(s, t) ==
    IF t = Empty THEN FALSE
    ELSE IF s = Empty THEN TRUE
    ELSE IF CharCode(Head(s)) # CharCode(Head(t))
         THEN CharCode(Head(s)) < CharCode(Head(t))
         ELSE LexLess(Tail(s), Tail(t))

\* sorted(S) for a set of strings.
RECURSIVE Sorted(_)
Sorted(S) ==
    IF S = {} THEN <<>>
    ELSE LET m == CHOOSE x \in S : \A y \in S \ {x} : LexLess(x, y)
         IN  <<m>> \o Sorted(S \ {m})

(***************************************************************************)
(* Rows.                                                                   *)
(***************************************************************************)
\* while len(row) < len(COLUMN_MAP): row.append('')
PadRow(row) ==
    IF Len(row) < NumColumns
    THEN row \o [i \in 1..(NumColumns - Len(row)) |-> Empty]
    ELSE row

\* row[col].strip() if col < len(row) else ''   (on the padded row)
Cell(row, col) ==
    LET r == PadRow(row)
    IN  IF col < Len(r) THEN Strip(r[col + 1]) ELSE Empty

\* set(v.strip() for v in victors_str.split(',') if v.strip())
ParseVictors(victors_str) ==
    {Strip(p) : p \in Range(Split(victors_str))} \ {Empty}

RowLevelId(row) == Cell(row, ALDR_ID)
RowVictors(row) == ParseVictors(Cell(row, VICTORS))

(***************************************************************************)
(* The sheets the model fetches.                                           *)
(***************************************************************************)
\* A full row of VICTORS + 1 fields.
FullRow(id, victors_str) ==
    <<id, <<"N">>, <<"C">>, <<"3">>, Empty, Empty, Empty, Empty, Empty, Empty,
      victors_str>>

IdTexts == { <<"L", "1">>, <<"L", "2">> }

VictorTexts ==
    { Empty,
      <<"a">>,
      <<"b">>,
      <<"b", ",", " ", "a">> }

\* Data rows: full rows, a full row without a level id, a row of one field
\* and a row of no field at all.
SheetRows ==
    {FullRow(id, v) : id \in IdTexts, v \in VictorTexts}
        \cup { FullRow(Empty, <<"a">>), << <<"L", "2">> >>, <<>> }

HeaderRow == << <<"L">>, <<"N">>, <<"C">> >>

RECURSIVE SeqsUpTo(_, _)
SeqsUpTo(S, n) ==
    IF n = 0 THEN {<<>>}
    ELSE LET shorter == SeqsUpTo(S, n - 1)
         IN  shorter \cup {Append(s, x) : s \in shorter, x \in S}

\* fetch_sheet_data() returned None.
None == [fetched |-> FALSE, rows |-> <<>>]

\* What fetch_sheet_data() can return: None, an empty document, or a header
\* followed by data rows.
Sheets ==
    {[fetched |-> TRUE, rows |-> <<>>]}
        \cup {[fetched |-> TRUE, rows |-> <<HeaderRow>> \o s] :
                 s \in SeqsUpTo(SheetRows, MaxRows)}

LevelIds == {RowLevelId(r) : r \in SheetRows} \ {Empty}
VictorNames == UNION {RowVictors(r) : r \in SheetRows}


(***************************************************************************)
(* State.                                                                  *)
(***************************************************************************)
VARIABLES
    configured,            \* "YOUR_WEBHOOK" not in DISCORD_WEBHOOK_URL
    pc,                    \* where the process is
    previous_victors,      \* global: level id -> set of victors
    first_check_done,      \* global: baseline established
    data,                  \* check_for_changes: what the fetch returned
    row_idx,               \* check_for_changes: the loop's row index
    current_victors_dict,  \* check_for_changes: level id -> victors, this cycle
    pending,               \* sorted(new_victors) still to be sent for the row
    log,                   \* history: the send_discord_message calls of the cycle
    result,                \* history: how the cycle ended
    start_victors,         \* history: previous_victors when the cycle began
    start_done,            \* history: first_check_done when the cycle began
    sent,                  \* history: (level, victor) pairs sent and not since
                           \*   listed as absent by a committed snapshot
    removed,               \* history: (level, victor) pairs once recorded and
                           \*   dropped by a later committed snapshot
    in_flight              \* history: calls of check_for_changes not yet returned

VARIABLES
    m_pc,                  \* send_manual.py: where the manual sender is
    m_data,                \* send_manual.py main: what the fetch returned
    m_row_num,             \* send_manual.py main: the row number given
    m_sent,                \* history: send_discord_message calls of send_manual.py
    t_text,                \* a difficulty text handed to get_difficulty_emoji
    t_monitor,             \* what monitor.py's get_difficulty_emoji returned
    t_manual               \* what send_manual.py's get_difficulty_emoji returned

monitor == <<configured, pc, previous_victors, first_check_done, data, row_idx,
             current_victors_dict, pending, log, result, start_victors,
             start_done, sent, removed, in_flight>>
manual == <<m_pc, m_data, m_row_num, m_sent>>
tier == <<t_text, t_monitor, t_manual>>

vars == <<monitor, manual, tier>>

globals == <<previous_victors, first_check_done>>
locals == <<data, row_idx, current_victors_dict, pending>>
history == <<log, result, start_victors, start_done, sent, removed, in_flight>>

EmptyDict == [k \in {} |-> {}]

\* dict[key] = value
SetItem(dict, key, value) ==
    [k \in DOMAIN dict \cup {key} |-> IF k = key THEN value ELSE dict[k]]

\* Mutant: a level not on record is taken to have every victor on record.
GetKnowsAll(dict, level_id) ==
    IF level_id \in DOMAIN dict THEN dict[level_id] ELSE VictorNames

\* previous_victors.get(level_id, set())
Get(dict, level_id) ==
    IF level_id \in DOMAIN dict THEN dict[level_id] ELSE {}

\* Mutant: a failed fetch is taken for an empty snapshot and processed.
HasDataAlways(d) == TRUE

\* if not data or len(data) < 2: return
HasData(d) == d.fetched /\ Len(d.rows) >= 2

\* data[1:] has this many rows; row k of enumerate(data[1:], start=1) is data[k].
NumDataRows(d) == Len(d.rows) - 1
DataRow(d, k) == d.rows[k + 1]

\* Mutant: the operands of the difference swapped.
NewVictorsSwapped(current_victors, previous_victors_set) ==
    previous_victors_set \ current_victors

\* new_victors = current_victors - previous_victors_set
NewVictors(current_victors, previous_victors_set) ==
    current_victors \ previous_victors_set

\* Mutant: the baseline test forgotten.
ShouldNotifyNoBaseline(new_victors, done) == new_victors # {}

\* if new_victors and first_check_done:
ShouldNotify(new_victors, done) == new_victors # {} /\ done

\* Mutant: sorted(new_victors, reverse=True).
RECURSIVE SendOrderReversed(_)
SendOrderReversed(new_victors) ==
    IF new_victors = {} THEN <<>>
    ELSE LET m == CHOOSE x \in new_victors :
                      \A y \in new_victors \ {x} : LexLess(y, x)
         IN  <<m>> \o SendOrderReversed(new_victors \ {m})

\* for victor in sorted(new_victors):
SendOrder(new_victors) == Sorted(new_victors)

\* Mutant: previous_victors[level_id] |= data_dict['victors'].
CommitVictorsAccumulate(prev, current) ==
    [k \in DOMAIN prev \cup DOMAIN current |->
        (IF k \in DOMAIN prev THEN prev[k] ELSE {})
            \cup (IF k \in DOMAIN current THEN current[k] ELSE {})]

\* Mutant: previous_victors = {the current victors}, absent levels dropped.
CommitVictorsReplace(prev, current) == current

\* Mutant: the handler of the error keeps what the cycle had gathered.
OnErrorKeep(prev, current) ==
    [k \in DOMAIN prev \cup DOMAIN current |->
        IF k \in DOMAIN current THEN current[k] ELSE prev[k]]

\* except Exception as e: print(...)   -- previous_victors is not touched.
OnError(prev, current) == prev

\* for level_id, data_dict in current_victors_dict.items():
\*     previous_victors[level_id] = data_dict['victors']
CommitVictors(prev, current) ==
    [k \in DOMAIN prev \cup DOMAIN current |->
        IF k \in DOMAIN current THEN current[k] ELSE prev[k]]

\* Mutant: rows without a level id are processed like the others.
NoLevelIdNever(level_id) == FALSE

\* if not level_id: continue
NoLevelId(level_id) == level_id = Empty

\* Mutant: first_check_done = not first_check_done.
MarkBaselineToggle(done) == ~done

\* if not first_check_done: first_check_done = True
MarkBaseline(done) == IF ~done THEN TRUE ELSE done

\* The new victors of data row k against the recorded state.
RowNewVictors(d, k, prev) ==
    NewVictors(RowVictors(DataRow(d, k)), Get(prev, RowLevelId(DataRow(d, k))))

\* The arguments of one send_discord_message call, its row and its outcome.
Message(k, row, victor, ok) ==
    [row |-> k,
     level_id |-> RowLevelId(row),
     victor |-> victor,
     level_name |-> Cell(row, LEVEL_NAME),
     creators |-> Cell(row, CREATOR),
     difficulty |-> Cell(row, DIFFICULTY),
     ok |-> ok]

\* (level, victor) pairs that some data row of d lists as absent.
ListedWithout(d) ==
    {<<RowLevelId(DataRow(d, k)), a>> :
        k \in {j \in 1..NumDataRows(d) : RowLevelId(DataRow(d, j)) # Empty},
        a \in VictorNames}
      \ {p \in LevelIds \X VictorNames :
            \A k \in 1..NumDataRows(d) :
                RowLevelId(DataRow(d, k)) = p[1] => p[2] \in RowVictors(DataRow(d, k))}

\* The monitor process as it starts.
MonitorInit ==
    /\ configured \in BOOLEAN
    /\ pc = "main"
    /\ previous_victors = EmptyDict
    /\ first_check_done = FALSE
    /\ data = None
    /\ row_idx = 0
    /\ current_victors_dict = EmptyDict
    /\ pending = <<>>
    /\ log = <<>>
    /\ result = "none"
    /\ start_victors = EmptyDict
    /\ start_done = FALSE
    /\ sent = {}
    /\ removed = {}
    /\ in_flight = 0

\* The manual sender is not running.
ManualIdle ==
    /\ m_pc = "off"
    /\ m_data = None
    /\ m_row_num = 0
    /\ m_sent = <<>>

\* Nothing classified yet.
Unset == << "unset" >>

\* No classification is going on.
TierIdle ==
    /\ t_text = Empty
    /\ t_monitor = Unset
    /\ t_manual = Unset

Init ==
    /\ MonitorInit
    /\ ManualIdle
    /\ TierIdle

(***************************************************************************)
(* main (monitor.py:216-250).                                              *)
(***************************************************************************)
\* Mutant: the test of the placeholder left out.
StartupNeverAborts(conf) == FALSE

\* if "YOUR_WEBHOOK" in DISCORD_WEBHOOK_URL:
StartupAborts(conf) == ~conf

\* if "YOUR_WEBHOOK" in DISCORD_WEBHOOK_URL: ... return
MainNotConfigured ==
    /\ pc = "main"
    /\ StartupAborts(configured)
    /\ pc' = "exit"
    /\ UNCHANGED <<manual, tier, configured, globals, locals, history>>

\* check_for_changes() is entered: the initial check, or a scheduled one.
EnterCheck ==
    /\ start_victors' = previous_victors
    /\ start_done' = first_check_done
    /\ pc' = "check"
    /\ in_flight' = in_flight + 1
    /\ UNCHANGED <<manual, tier, configured, globals, locals, log, result, sent, removed>>

MainInitialCheck ==
    /\ pc = "main"
    /\ ~StartupAborts(configured)
    /\ EnterCheck

\* Mutant: the job is started by a timer, whatever the process is doing.
SchedulerRunsAnytime(p) == p \in {"idle", "rows", "send"}

\* while True: schedule.run_pending(); time.sleep(1)  -- the job is called
\* from the loop, so only when the previous call has returned.
SchedulerRuns(p) == p = "idle"

\* schedule.run_pending() runs the job.
ScheduledCheck ==
    /\ SchedulerRuns(pc)
    /\ EnterCheck

(***************************************************************************)
(* check_for_changes (monitor.py:135-213).                                 *)
(***************************************************************************)
\* fetch_sheet_data() returned None: "No data found in sheet", return.
FetchFailed ==
    /\ pc = "check"
    /\ ~HasData(None)
    /\ data' = None
    /\ pc' = "done"
    /\ result' = "nodata"
    /\ UNCHANGED <<manual, tier, configured, globals, row_idx, current_victors_dict, pending,
                   log, start_victors, start_done, sent, removed, in_flight>>

\* The fetch returned fewer than two rows: "No data found in sheet", return.
FetchNoRows ==
    /\ pc = "check"
    /\ \E d \in Sheets :
           /\ ~HasData(d)
           /\ data' = d
    /\ pc' = "done"
    /\ result' = "nodata"
    /\ UNCHANGED <<manual, tier, configured, globals, row_idx, current_victors_dict, pending,
                   log, start_victors, start_done, sent, removed, in_flight>>

\* The fetch returned data: the row loop starts at row 1.
FetchData ==
    /\ pc = "check"
    /\ \E d \in Sheets \cup {None} :
           /\ HasData(d)
           /\ data' = d
    /\ pc' = "rows"
    /\ row_idx' = 1
    /\ current_victors_dict' = EmptyDict
    /\ UNCHANGED <<manual, tier, configured, globals, pending, history>>

\* if not level_id: continue
SkipRow ==
    /\ pc = "rows"
    /\ row_idx <= NumDataRows(data)
    /\ NoLevelId(RowLevelId(DataRow(data, row_idx)))
    /\ row_idx' = row_idx + 1
    /\ UNCHANGED <<manual, tier, configured, pc, globals, data, current_victors_dict, pending,
                   history>>

\* A row with a level id and nothing to send: record its victors, next row.
DiffRowQuiet ==
    /\ pc = "rows"
    /\ row_idx <= NumDataRows(data)
    /\ LET row == DataRow(data, row_idx)
           level_id == RowLevelId(row)
       IN  /\ ~NoLevelId(level_id)
           /\ ~ShouldNotify(RowNewVictors(data, row_idx, previous_victors),
                            first_check_done)
           /\ current_victors_dict' =
                  SetItem(current_victors_dict, level_id, RowVictors(row))
    /\ row_idx' = row_idx + 1
    /\ UNCHANGED <<manual, tier, configured, pc, globals, data, pending, history>>

\* A row with new victors after the baseline: "Change detected", then the
\* sends in sorted order.
DiffRowNotify ==
    /\ pc = "rows"
    /\ row_idx <= NumDataRows(data)
    /\ LET row == DataRow(data, row_idx)
           level_id == RowLevelId(row)
           new_victors == RowNewVictors(data, row_idx, previous_victors)
       IN  /\ ~NoLevelId(level_id)
           /\ ShouldNotify(new_victors, first_check_done)
           /\ current_victors_dict' =
                  SetItem(current_victors_dict, level_id, RowVictors(row))
           /\ pending' = SendOrder(new_victors)
    /\ pc' = "send"
    /\ UNCHANGED <<manual, tier, configured, globals, data, row_idx, history>>

\* The print of line 197 raises (the console cannot encode the level name, or
\* stdout is closed): the handler of line 212 ends the cycle.
RowRaises ==
    /\ pc = "rows"
    /\ row_idx <= NumDataRows(data)
    /\ LET row == DataRow(data, row_idx)
           level_id == RowLevelId(row)
           new_victors == RowNewVictors(data, row_idx, previous_victors)
       IN  /\ ~NoLevelId(level_id)
           /\ ShouldNotify(new_victors, first_check_done)
           /\ current_victors_dict' =
                  SetItem(current_victors_dict, level_id, RowVictors(row))
    /\ previous_victors' = OnError(previous_victors, current_victors_dict')
    /\ pc' = "done"
    /\ result' = "error"
    /\ UNCHANGED <<manual, tier, configured, first_check_done, data, row_idx, pending, log,
                   start_victors, start_done, sent, removed, in_flight>>

\* send_discord_message for the next victor of the row; the post succeeds or
\* fails (status not 200/204, or an exception), and the loop goes on.
SendStep ==
    /\ pc = "send"
    /\ \E ok \in BOOLEAN :
           log' = Append(log, Message(row_idx, DataRow(data, row_idx),
                                      Head(pending), ok))
    /\ pending' = Tail(pending)
    /\ IF Tail(pending) = <<>>
       THEN pc' = "rows" /\ row_idx' = row_idx + 1
       ELSE pc' = "send" /\ row_idx' = row_idx
    /\ UNCHANGED <<manual, tier, configured, globals, data, current_victors_dict, result,
                   start_victors, start_done, removed, in_flight>>

SendOne ==
    /\ SendStep
    /\ UNCHANGED sent

\* SendOne, with the pair recorded in the history variable sent.
SendOneRecorded ==
    /\ SendStep
    /\ sent' = sent \cup {<<RowLevelId(DataRow(data, row_idx)), Head(pending)>>}

\* After the loop: previous_victors is updated and the baseline is marked.
CommitStep ==
    /\ pc = "rows"
    /\ row_idx > NumDataRows(data)
    /\ previous_victors' = CommitVictors(previous_victors, current_victors_dict)
    /\ first_check_done' = MarkBaseline(first_check_done)
    /\ removed' =
           {p \in LevelIds \X VictorNames :
               /\ p[1] \in DOMAIN previous_victors'
               /\ p[2] \notin previous_victors'[p[1]]
               /\ (p \in removed \/ p[2] \in Get(previous_victors, p[1]))}
    /\ pc' = "done"
    /\ result' = "ok"
    /\ UNCHANGED <<manual, tier, configured, locals, log, start_victors, start_done, in_flight>>

Commit ==
    /\ CommitStep
    /\ UNCHANGED sent

\* Commit, with the pairs the snapshot lists as absent dropped from sent.
CommitRecorded ==
    /\ CommitStep
    /\ sent' = sent \ ListedWithout(data)

\* check_for_changes returns: its locals are gone, the scheduler waits.
Return ==
    /\ pc = "done"
    /\ pc' = "idle"
    /\ data' = None
    /\ row_idx' = 0
    /\ current_victors_dict' = EmptyDict
    /\ pending' = <<>>
    /\ log' = <<>>
    /\ result' = "none"
    /\ start_victors' = previous_victors
    /\ start_done' = first_check_done
    /\ in_flight' = in_flight - 1
    /\ UNCHANGED <<manual, tier, configured, globals, sent, removed>>

\* The steps that neither send nor commit.
OtherStep ==
    \/ MainNotConfigured
    \/ MainInitialCheck
    \/ ScheduledCheck
    \/ FetchFailed
    \/ FetchNoRows
    \/ FetchData
    \/ SkipRow
    \/ DiffRowQuiet
    \/ DiffRowNotify
    \/ RowRaises
    \/ Return

Next ==
    \/ OtherStep
    \/ SendOne
    \/ Commit

Spec == Init /\ [][Next]_vars

\* The same program with the history variable sent kept up to date.
NextRecorded ==
    \/ OtherStep
    \/ SendOneRecorded
    \/ CommitRecorded

SpecRecorded == Init /\ [][NextRecorded]_vars

(***************************************************************************)
(* get_difficulty_emoji (monitor.py:56-89, send_manual.py:52-97).          *)
(* A difficulty value is kept in tenths, so that 1.5 is 15.                *)
(***************************************************************************)
\* Largest whole number among the numeric difficulty texts classified.
MaxDifficulty == 16

\* The names of the tiers, as text.
T_effortless == <<"e", "f", "f", "o", "r", "t", "l", "e", "s", "s">>
T_easy == <<"e", "a", "s", "y">>
T_medium == <<"m", "e", "d", "i", "u", "m">>
T_hard == <<"h", "a", "r", "d">>
T_harder == <<"h", "a", "r", "d", "e", "r">>
T_insane == <<"i", "n", "s", "a", "n", "e">>
T_expert == <<"e", "x", "p", "e", "r", "t">>
T_extreme == <<"e", "x", "t", "r", "e", "m", "e">>
T_madness == <<"m", "a", "d", "n", "e", "s", "s">>
T_master == <<"m", "a", "s", "t", "e", "r">>
T_grandmaster == <<"g", "r", "a", "n", "d", "m", "a", "s", "t", "e", "r">>
T_gm1 == <<"g", "m", "1">>
T_gm2 == <<"g", "m", "2">>
T_tas == <<"t", "a", "s">>
T_tas1 == <<"t", "a", "s", "1">>
T_tas2 == <<"t", "a", "s", "2">>

\* The emoji token '<:name:id>' of a tier (the numeric id left out).
Emoji(name) == <<"<", ":">> \o name \o <<":", ">">>

\* The keys of DIFFICULTY_EMOJI_MAP in monitor.py; each maps to the emoji of
\* its own name.
MonitorNamed ==
    {T_easy, T_medium, T_hard, T_harder, T_insane, T_expert, T_extreme,
     T_madness, T_master, T_grandmaster, T_gm1, T_gm2, T_tas, T_tas1, T_tas2}

\* The keys of DIFFICULTY_EMOJI_MAP in send_manual.py.
ManualNamed == MonitorNamed \cup {T_effortless}

\* str.lower(), for the upper-case letters the model uses.
LowerChar(c) ==
    CASE c = "E" -> "e"
      [] c = "H" -> "h"
      [] c = "X" -> "x"
      [] OTHER -> c

Lower(t) == [i \in 1..Len(t) |-> LowerChar(t[i])]

Digits == <<"0", "1", "2", "3", "4", "5", "6", "7", "8", "9">>
IsDigit(c) == \E d \in 1..10 : Digits[d] = c
DigitValue(c) == (CHOOSE d \in 1..10 : Digits[d] = c) - 1

RECURSIVE NatValue(_)
NatValue(ds) ==
    IF ds = <<>> THEN 0
    ELSE 10 * NatValue(SubSeq(ds, 1, Len(ds) - 1)) + DigitValue(ds[Len(ds)])

\* float(t) for a decimal literal: an optional '-', digits, and optionally a
\* point with at most one digit after it; the value in tenths.  Any other
\* text of the model raises ValueError (ok is FALSE).
ParseFloat(t) ==
    LET neg == t # <<>> /\ Head(t) = "-"
        body == IF neg THEN Tail(t) ELSE t
        points == {i \in 1..Len(body) : body[i] = "."}
        whole == IF points = {} THEN body
                 ELSE SubSeq(body, 1, (CHOOSE i \in points : TRUE) - 1)
        frac == IF points = {} THEN <<>>
                ELSE SubSeq(body, (CHOOSE i \in points : TRUE) + 1, Len(body))
        wellformed ==
            /\ Cardinality(points) <= 1
            /\ \A i \in 1..Len(whole) : IsDigit(whole[i])
            /\ \A i \in 1..Len(frac) : IsDigit(frac[i])
            /\ Len(whole) + Len(frac) >= 1
            /\ Len(frac) <= 1
        magnitude == 10 * NatValue(whole) + NatValue(frac)
    IN  IF wellformed
        THEN [ok |-> TRUE, tenths |-> IF neg THEN 0 - magnitude ELSE magnitude]
        ELSE [ok |-> FALSE, tenths |-> 0]

\* Mutant: the comparisons of monitor.py:67-83 written with <=.
MonitorTierInclusive(difficulty) ==
    IF difficulty <= 15 THEN T_easy
    ELSE IF difficulty <= 25 THEN T_medium
    ELSE IF difficulty <= 35 THEN T_hard
    ELSE IF difficulty <= 45 THEN T_harder
    ELSE IF difficulty <= 55 THEN T_insane
    ELSE IF difficulty <= 65 THEN T_expert
    ELSE IF difficulty <= 75 THEN T_extreme
    ELSE IF difficulty <= 85 THEN T_madness
    ELSE IF difficulty <= 95 THEN T_master
    ELSE T_grandmaster

\* monitor.py:67-86: the tier of a numeric difficulty (in tenths).
MonitorTier(difficulty) ==
    IF difficulty < 15 THEN T_easy
    ELSE IF difficulty < 25 THEN T_medium
    ELSE IF difficulty < 35 THEN T_hard
    ELSE IF difficulty < 45 THEN T_harder
    ELSE IF difficulty < 55 THEN T_insane
    ELSE IF difficulty < 65 THEN T_expert
    ELSE IF difficulty < 75 THEN T_extreme
    ELSE IF difficulty < 85 THEN T_madness
    ELSE IF difficulty < 95 THEN T_master
    ELSE T_grandmaster

\* send_manual.py:63-94: the tier of a numeric difficulty (in tenths).
ManualTier(difficulty) ==
    IF difficulty < 10 THEN T_effortless
    ELSE IF difficulty < 20 THEN T_easy
    ELSE IF difficulty < 30 THEN T_medium
    ELSE IF difficulty < 40 THEN T_hard
    ELSE IF difficulty < 50 THEN T_harder
    ELSE IF difficulty < 60 THEN T_insane
    ELSE IF difficulty < 70 THEN T_expert
    ELSE IF difficulty < 80 THEN T_extreme
    ELSE IF difficulty < 90 THEN T_madness
    ELSE IF difficulty < 100 THEN T_master
    ELSE IF difficulty < 110 THEN T_grandmaster
    ELSE IF difficulty < 120 THEN T_gm1
    ELSE IF difficulty < 130 THEN T_gm2
    ELSE IF difficulty < 140 THEN T_tas
    ELSE IF difficulty < 150 THEN T_tas1
    ELSE T_tas2

\* get_difficulty_emoji of monitor.py.  The parameter is rebound to its
\* stripped, lower-case form on line 58, and that is what line 89 returns.
MonitorEmoji(difficulty_str) ==
    LET s == Lower(Strip(difficulty_str))
    IN  IF s \in MonitorNamed THEN Emoji(s)
        ELSE IF ParseFloat(s).ok THEN Emoji(MonitorTier(ParseFloat(s).tenths))
        ELSE s

\* get_difficulty_emoji of send_manual.py.
ManualEmoji(difficulty_str) ==
    LET s == Lower(Strip(difficulty_str))
    IN  IF s \in ManualNamed THEN Emoji(s)
        ELSE IF ParseFloat(s).ok THEN Emoji(ManualTier(ParseFloat(s).tenths))
        ELSE s

\* The decimal text of a natural number.
RECURSIVE NatText(_)
NatText(n) ==
    IF n < 10 THEN <<Digits[n + 1]>>
    ELSE NatText(n \div 10) \o <<Digits[(n % 10) + 1]>>

\* The difficulty texts classified: the numbers 0, 0.5, 1, ... up to
\* MaxDifficulty, a negative number, named tiers as written in a sheet, and
\* texts that are neither.
DifficultyTexts ==
    {NatText(n) : n \in 0..MaxDifficulty}
        \cup {NatText(n) \o <<".", "5">> : n \in 0..(MaxDifficulty - 1)}
        \cup {NatText(n) \o <<".", "0">> : n \in 0..MaxDifficulty}
        \cup { <<"-", "1">>,
               T_easy, T_effortless, T_tas2,
               <<"E", "a", "s", "y">>,
               <<" ", "H", "a", "r", "d", " ">>,
               <<"x">>, <<"X">>, <<" ", "X">>, <<"1", "x">>, Empty }

\* A difficulty text is about to be classified by both programs.
InitTier ==
    /\ MonitorInit
    /\ ManualIdle
    /\ t_text \in DifficultyTexts
    /\ t_monitor = Unset
    /\ t_manual = Unset

\* send_discord_message of monitor.py: get_difficulty_emoji(difficulty).
ClassifyMonitor ==
    /\ t_monitor = Unset
    /\ t_monitor' = MonitorEmoji(t_text)
    /\ UNCHANGED <<monitor, manual, t_text, t_manual>>

\* send_discord_message of send_manual.py: get_difficulty_emoji(difficulty).
ClassifyManual ==
    /\ t_manual = Unset
    /\ t_manual' = ManualEmoji(t_text)
    /\ UNCHANGED <<monitor, manual, t_text, t_monitor>>

NextTier ==
    \/ ClassifyMonitor
    \/ ClassifyManual

SpecTier == InitTier /\ [][NextTier]_vars

(***************************************************************************)
(* main of send_manual.py (send_manual.py:147-242): one run of the manual  *)
(* sender, a process of its own.                                           *)
(***************************************************************************)
\* Rows the manual sender may read: those of the monitor, and rows whose
\* victors cell holds separators only or ends with one.
ManualRows ==
    SheetRows \cup {FullRow(<<"L", "1">>, <<",">>),
                    FullRow(<<"L", "1">>, <<"b", ",", "a", ",", " ">>)}

ManualSheets ==
    {None, [fetched |-> TRUE, rows |-> <<>>]}
        \cup {[fetched |-> TRUE, rows |-> <<HeaderRow>> \o s] :
                 s \in SeqsUpTo(ManualRows, MaxRows)}

\* The row numbers typed: every valid one, and one on either side.
RowNumbers == 0..(MaxRows + 1)

\* What the monitor process may hold while the manual sender runs.
RecordedStates ==
    {[victors |-> EmptyDict, done |-> FALSE]}
        \cup {[victors |-> f, done |-> TRUE] : f \in [LevelIds -> SUBSET VictorNames]}

\* send_manual.py:156: if not data or len(data) < 2
ManualHasData(d) == d.fetched /\ Len(d.rows) >= 2

\* send_manual.py:201: if row_num < 1 or row_num > len(data) - 1
RowOutOfRange(d, row_num) == row_num < 1 \/ row_num > Len(d.rows) - 1

\* send_manual.py:206-216: data[row_num], padded.
ManualRow(d, row_num) == PadRow(d.rows[row_num + 1])

\* send_manual.py:227: [v.strip() for v in victors_str.split(',') if v.strip()]
VictorsList(victors_str) ==
    LET parts == Split(victors_str)
        stripped == [i \in 1..Len(parts) |-> Strip(parts[i])]
        NonEmpty(v) == v # Empty
    IN  SelectSeq(stripped, NonEmpty)

\* Mutant: the first entry of the list.
NewestVictorFirst(victors_list) ==
    IF victors_list # <<>> THEN victors_list[1] ELSE Empty

\* send_manual.py:228: victors_list[-1] if victors_list else None (None and
\* '' are both false on line 230; Empty stands for either).
NewestVictor(victors_list) ==
    IF victors_list # <<>> THEN victors_list[Len(victors_list)] ELSE Empty

\* send_manual.py:116-127: what send_discord_message is called with, and the
\* emoji it puts in the message.
ManualMessage(row, victor) ==
    [victor_name |-> victor,
     level_name |-> Cell(row, LEVEL_NAME),
     creators |-> Cell(row, CREATOR),
     difficulty |-> Cell(row, DIFFICULTY),
     difficulty_emoji |-> ManualEmoji(Cell(row, DIFFICULTY))]

\* The manual sender starts while the monitor sleeps between two cycles.
InitManual ==
    /\ configured = TRUE
    /\ pc = "idle"
    /\ \E s \in RecordedStates :
          /\ previous_victors = s.victors
          /\ first_check_done = s.done
          /\ start_victors = s.victors
          /\ start_done = s.done
    /\ data = None
    /\ row_idx = 0
    /\ current_victors_dict = EmptyDict
    /\ pending = <<>>
    /\ log = <<>>
    /\ result = "none"
    /\ sent = {}
    /\ removed = {}
    /\ in_flight = 0
    /\ m_pc = "fetch"
    /\ m_data = None
    /\ m_row_num = 0
    /\ m_sent = <<>>
    /\ TierIdle

\* send_manual.py:154-158: the fetch failed, or fewer than two rows.
ManualNoData ==
    /\ m_pc = "fetch"
    /\ \E d \in ManualSheets :
          /\ ~ManualHasData(d)
          /\ m_data' = d
    /\ m_pc' = "done"
    /\ UNCHANGED <<monitor, tier, m_row_num, m_sent>>

\* send_manual.py:154-174: the snapshot is loaded.
ManualLoad ==
    /\ m_pc = "fetch"
    /\ \E d \in ManualSheets :
          /\ ManualHasData(d)
          /\ m_data' = d
    /\ m_pc' = "argv"
    /\ UNCHANGED <<monitor, tier, m_row_num, m_sent>>

\* send_manual.py:177-198: int() raises ValueError.
ManualBadArgument ==
    /\ m_pc = "argv"
    /\ m_pc' = "done"
    /\ UNCHANGED <<monitor, tier, m_data, m_row_num, m_sent>>

\* send_manual.py:200-203: the row number is not one of the snapshot's.
ManualRowOutOfRange ==
    /\ m_pc = "argv"
    /\ \E n \in RowNumbers :
          /\ RowOutOfRange(m_data, n)
          /\ m_row_num' = n
    /\ m_pc' = "done"
    /\ UNCHANGED <<monitor, tier, m_data, m_sent>>

\* send_manual.py:200-216: the row is selected.
ManualSelectRow ==
    /\ m_pc = "argv"
    /\ \E n \in RowNumbers :
          /\ ~RowOutOfRange(m_data, n)
          /\ m_row_num' = n
    /\ m_pc' = "row"
    /\ UNCHANGED <<monitor, tier, m_data, m_sent>>

\* send_manual.py:218-220: if not level_id: return
ManualNoLevelId ==
    /\ m_pc = "row"
    /\ Cell(ManualRow(m_data, m_row_num), ALDR_ID) = Empty
    /\ m_pc' = "done"
    /\ UNCHANGED <<monitor, tier, m_data, m_row_num, m_sent>>

\* send_manual.py:222-224: if not victors_str: return
ManualNoVictors ==
    /\ m_pc = "row"
    /\ Cell(ManualRow(m_data, m_row_num), ALDR_ID) # Empty
    /\ Cell(ManualRow(m_data, m_row_num), VICTORS) = Empty
    /\ m_pc' = "done"
    /\ UNCHANGED <<monitor, tier, m_data, m_row_num, m_sent>>

\* send_manual.py:226-232: if not newest_victor: return
ManualNoNewest ==
    /\ m_pc = "row"
    /\ Cell(ManualRow(m_data, m_row_num), ALDR_ID) # Empty
    /\ Cell(ManualRow(m_data, m_row_num), VICTORS) # Empty
    /\ NewestVictor(VictorsList(Cell(ManualRow(m_data, m_row_num), VICTORS))) = Empty
    /\ m_pc' = "done"
    /\ UNCHANGED <<monitor, tier, m_data, m_row_num, m_sent>>

\* send_manual.py:234-242: the message for the newest victor is sent; the
\* result of the send is not looked at.
ManualSend ==
    /\ m_pc = "row"
    /\ Cell(ManualRow(m_data, m_row_num), ALDR_ID) # Empty
    /\ Cell(ManualRow(m_data, m_row_num), VICTORS) # Empty
    /\ NewestVictor(VictorsList(Cell(ManualRow(m_data, m_row_num), VICTORS))) # Empty
    /\ m_sent' = Append(m_sent,
          ManualMessage(ManualRow(m_data, m_row_num),
              NewestVictor(VictorsList(Cell(ManualRow(m_data, m_row_num), VICTORS)))))
    /\ m_pc' = "done"
    /\ UNCHANGED <<monitor, tier, m_data, m_row_num>>

NextManual ==
    \/ ManualNoData
    \/ ManualLoad
    \/ ManualBadArgument
    \/ ManualRowOutOfRange
    \/ ManualSelectRow
    \/ ManualNoLevelId
    \/ ManualNoVictors
    \/ ManualNoNewest
    \/ ManualSend

SpecManual == InitManual /\ [][NextManual]_vars

(***************************************************************************)
(* Properties.                                                             *)
(***************************************************************************)
\* The level ids of the snapshot's data rows.
SnapshotKeys(d) ==
    {RowLevelId(DataRow(d, k)) : k \in 1..NumDataRows(d)} \ {Empty}

\* The data rows of the snapshot that carry level id E.
RowsOf(d, E) == {k \in 1..NumDataRows(d) : RowLevelId(DataRow(d, k)) = E}

\* The victors the snapshot lists for E: those of the last row carrying E.
EntityVictors(d, E) ==
    RowVictors(DataRow(d, CHOOSE k \in RowsOf(d, E) : \A j \in RowsOf(d, E) : j <= k))

\* The sends of the cycle for the pair (E, a).
SendsOf(E, a) == {i \in 1..Len(log) : log[i].level_id = E /\ log[i].victor = a}

\* The cycle is over and it committed.
CycleCommitted == pc = "done" /\ result = "ok"

\* C1 (as claimed): for every fetched snapshot, the first cycle on a fresh
\* state sends nothing and leaves the baseline flag true.
C1_FreshCycleAnySnapshot ==
    (pc = "done" /\ data.fetched /\ ~start_done)
        => (log = <<>> /\ first_check_done)

\* C1 (amended): the first cycle on a fresh state sends nothing whatever was
\* fetched, and leaves the baseline flag true when the fetched snapshot has
\* at least one row after the header row.
C1_FreshCycleBaseline ==
    (pc = "done" /\ data.fetched /\ ~start_done)
        => /\ log = <<>>
           /\ NumDataRows(data) >= 1 => first_check_done

\* A fresh cycle over a snapshot that lists victors has ended.
C1_Witness ==
    /\ pc = "done"
    /\ data.fetched
    /\ ~start_done
    /\ first_check_done
    /\ \E k \in 1..NumDataRows(data) :
           /\ RowLevelId(DataRow(data, k)) # Empty
           /\ RowVictors(DataRow(data, k)) # {}

\* The rows and victors a cycle over snapshot d sends when it starts from the
\* recorded state prev with baseline flag done.
CycleSends(d, prev, done) ==
    {<<k, a>> \in (1..NumDataRows(d)) \X VictorNames :
        /\ RowLevelId(DataRow(d, k)) # Empty
        /\ ShouldNotify(RowNewVictors(d, k, prev), done)
        /\ a \in RowNewVictors(d, k, prev)}

\* C2: idempotence.  After a committed cycle over snapshot S, a second cycle
\* over the same S (which starts from the state the first one left) sends
\* nothing.
C2_Idempotent ==
    CycleCommitted
        => CycleSends(data, previous_victors, first_check_done) = {}

\* C3: a send for a pair (level, victor) is never repeated unless a committed
\* snapshot listed the level without the victor in between: every send is for
\* a pair not in sent.
C3_NeverResent ==
    [][Len(log') = Len(log) + 1
          => <<log'[Len(log')].level_id, log'[Len(log')].victor>> \notin sent]_vars

\* C4: in a committed cycle after the baseline, a pair (E, a) of a level of
\* the snapshot is sent exactly once when a is listed for E and was not
\* recorded at the start, and not at all when a is not listed for E or was
\* recorded.  (Where several rows carry E, "listed" is read as listed by all
\* of them and "not listed" as listed by none: the weakest reading.)
C4_ExactlyOnePerNewVictor ==
    (CycleCommitted /\ start_done)
        => \A E \in SnapshotKeys(data), a \in VictorNames :
               /\ ( /\ \A k \in RowsOf(data, E) : a \in RowVictors(DataRow(data, k))
                    /\ a \notin Get(start_victors, E) )
                      => Cardinality(SendsOf(E, a)) = 1
               /\ ( \/ \A k \in RowsOf(data, E) : a \notin RowVictors(DataRow(data, k))
                    \/ a \in Get(start_victors, E) )
                      => Cardinality(SendsOf(E, a)) = 0

C6_FetchFailureNoChange ==
    (pc = "done" /\ ~data.fetched)
        => /\ log = <<>>
           /\ previous_victors = start_victors
           /\ first_check_done = start_done

\* A fetch failed after the baseline, with victors on record.
C6_Witness ==
    /\ pc = "done"
    /\ ~data.fetched
    /\ start_done
    /\ \E E \in DOMAIN start_victors : start_victors[E] # {}

\* C7: all-or-nothing.  While the rows are being processed, and after a cycle
\* that failed while processing them, the recorded sets and the baseline flag
\* are those of the cycle's start.
C7_AllOrNothing ==
    (pc \in {"rows", "send"} \/ (pc = "done" /\ result = "error"))
        => /\ previous_victors = start_victors
           /\ first_check_done = start_done

\* A cycle failed after sends, having gathered victors that differ from the
\* recorded ones.
C7_Witness ==
    /\ pc = "done"
    /\ result = "error"
    /\ log # <<>>
    /\ \E E \in DOMAIN current_victors_dict :
           current_victors_dict[E] # Get(start_victors, E)

\* C8: after a committed cycle the recorded set of every level of the
\* snapshot is the set the snapshot lists for it (that of the last row
\* carrying the level).
C8_RecordedEqualsSnapshot ==
    CycleCommitted
        => \A E \in SnapshotKeys(data) :
               /\ E \in DOMAIN previous_victors
               /\ previous_victors[E] = EntityVictors(data, E)

\* A committed cycle dropped a victor that was on record.
C8_Witness ==
    /\ CycleCommitted
    /\ \E E \in SnapshotKeys(data) :
           Get(start_victors, E) \ previous_victors[E] # {}

\* C9: no cycle removes a level from the recorded state, and a committed
\* cycle leaves the recorded set of every level absent from its snapshot as
\* it was.
C9_AbsentLevelsUntouched ==
    /\ DOMAIN start_victors \subseteq DOMAIN previous_victors
    /\ CycleCommitted
           => \A E \in DOMAIN start_victors \ SnapshotKeys(data) :
                  previous_victors[E] = start_victors[E]

\* A committed cycle over a snapshot with levels, while a level with victors
\* on record was absent from it.
C9_Witness ==
    /\ CycleCommitted
    /\ SnapshotKeys(data) # {}
    /\ \E E \in DOMAIN start_victors \ SnapshotKeys(data) :
           start_victors[E] # {}

\* The diff pass over all rows is complete: the cycle is about to commit.
DiffPassComplete == pc = "rows" /\ row_idx > NumDataRows(data)

\* C10: a victor that was recorded for a level, was then dropped by a
\* committed snapshot, and is listed again by the snapshot of a cycle that
\* completes, has been sent again in that cycle.
C10_ReappearanceResent ==
    DiffPassComplete
        => \A p \in removed :
               (p[1] \in SnapshotKeys(data) /\ p[2] \in EntityVictors(data, p[1]))
                   => SendsOf(p[1], p[2]) # {}

\* A dropped victor is listed again and the send for it has been made.
C10_Witness ==
    /\ DiffPassComplete
    /\ \E p \in removed :
           /\ p[1] \in SnapshotKeys(data)
           /\ p[2] \in EntityVictors(data, p[1])
           /\ SendsOf(p[1], p[2]) # {}

\* The (row, victor) pairs of the cycle's sends.
LoggedSends == {<<log[i].row, log[i].victor>> : i \in 1..Len(log)}

\* Every send the cycle's snapshot calls for has been attempted, whatever the
\* outcome of the earlier ones, and no row's sends were cut short.
AllSendsAttempted ==
    /\ pc = "done" => pending = <<>>
    /\ CycleCommitted => LoggedSends = CycleSends(data, start_victors, start_done)

\* A failed send is not called for again by a cycle over the same snapshot.
FailedSendNotRepeated ==
    CycleCommitted
        => \A i \in 1..Len(log) :
               ~log[i].ok
                   => \A k \in RowsOf(data, log[i].level_id) :
                          <<k, log[i].victor>> \notin
                              CycleSends(data, previous_victors, first_check_done)

\* C11: a failed delivery does not stop the cycle: the remaining sends are
\* attempted, the cycle commits the snapshot, and a cycle over the unchanged
\* snapshot does not attempt the failed send again.
C11_FailureIsTerminal ==
    /\ AllSendsAttempted
    /\ CycleCommitted
           => \A E \in SnapshotKeys(data) :
                  previous_victors[E] = EntityVictors(data, E)
    /\ FailedSendNotRepeated

\* C16: with the webhook URL still the placeholder the process ends at
\* startup: no cycle is entered, nothing is fetched or sent, and the recorded
\* state is never written.
C16_PlaceholderAborts ==
    ~configured
        => /\ pc \in {"main", "exit"}
           /\ in_flight = 0
           /\ data = None
           /\ log = <<>>
           /\ previous_victors = EmptyDict
           /\ ~first_check_done

\* The unconfigured process has ended.
C16_Witness == ~configured /\ pc = "exit"

\* C17: cycles are serial.  At most one call of check_for_changes is in
\* flight, it is in flight exactly while the process is inside it, and until
\* its own write the recorded state is the one it found at its start.
C17_SerialCycles ==
    /\ in_flight <= 1
    /\ in_flight = 1 <=> pc \in {"check", "rows", "send", "done"}
    /\ pc \in {"check", "rows", "send"}
           => /\ previous_victors = start_victors
              /\ first_check_done = start_done

\* A scheduled cycle is sending, after an earlier cycle committed.
C17_Witness ==
    /\ in_flight = 1
    /\ pc = "send"
    /\ start_done

\* The row has no field at the VICTORS position.
ShortRow(row) == Len(row) <= VICTORS

\* C18: rows of any length.  A row without a level id is skipped: nothing is
\* sent for it and nothing is recorded under the empty id.  A row with a level
\* id that ends before the victors field is read as listing no victor.  No
\* cycle fails at such a row.
C18_ShortRows ==
    /\ \A i \in 1..Len(log) :
           /\ log[i].level_id # Empty
           /\ ~ShortRow(DataRow(data, log[i].row))
    /\ Empty \notin DOMAIN current_victors_dict
    /\ Empty \notin DOMAIN previous_victors
    /\ CycleCommitted
           => \A E \in SnapshotKeys(data) :
                  (\E k \in RowsOf(data, E) :
                       /\ ShortRow(DataRow(data, k))
                       /\ \A j \in RowsOf(data, E) : j <= k)
                      => previous_victors[E] = {}
    /\ (pc = "done" /\ result = "error")
           => /\ ~ShortRow(DataRow(data, row_idx))
              /\ RowLevelId(DataRow(data, row_idx)) # Empty

\* A committed cycle over a row of no field and a row of one field, whose
\* level had victors on record.
C18_Witness ==
    /\ CycleCommitted
    /\ \E k \in 1..NumDataRows(data) : DataRow(data, k) = <<>>
    /\ \E k \in 1..NumDataRows(data) :
           /\ Len(DataRow(data, k)) = 1
           /\ Get(start_victors, RowLevelId(DataRow(data, k))) # {}
           /\ previous_victors[RowLevelId(DataRow(data, k))] = {}

\* The sends of the cycle for victor a at data row k.
RowSendsOf(k, a) == {i \in 1..Len(log) : log[i].row = k /\ log[i].victor = a}

C20_BaselineFlag ==
    [][/\ ~first_check_done => previous_victors = EmptyDict
       /\ ~first_check_done' => previous_victors' = EmptyDict
       /\ first_check_done => first_check_done']_vars

\* After the baseline a cycle failed, a fetch failed, and the flag is true.
C20_Witness ==
    /\ first_check_done
    /\ start_done
    /\ pc = "done"
    /\ result \in {"error", "nodata"}


\* The manual sender was given the number of one of the snapshot's rows.
ManualRowGiven ==
    /\ ManualHasData(m_data)
    /\ m_row_num \in 1..(Len(m_data.rows) - 1)

\* The non-empty entries of the given row's achiever list, in the order listed.
ManualListed == VictorsList(Cell(ManualRow(m_data, m_row_num), VICTORS))

\* C12 as stated: given any one-based row index into the snapshot, the manual
\* sender attempts a delivery for the last entry of that row's achiever list,
\* and the recorded sets and the baseline flag are left as they were.
C12_AnyRowSends ==
    /\ previous_victors = start_victors
    /\ first_check_done = start_done
    /\ (m_pc = "done" /\ ManualRowGiven /\ ManualListed # <<>>) =>
          /\ Len(m_sent) = 1
          /\ m_sent[1].victor_name = ManualListed[Len(ManualListed)]

\* C12, amended: given a one-based row index whose row has a level id and at
\* least one non-empty entry in its achiever list, the manual sender attempts
\* exactly one delivery, for the last non-empty entry of the list; given any
\* other row or index it attempts none.  What it does is determined by the
\* snapshot and the row number alone, and the recorded sets and the baseline
\* flag are left as they were.
C12_ManualTrigger ==
    /\ previous_victors = start_victors
    /\ first_check_done = start_done
    /\ m_pc \notin {"off", "done"} => m_sent = <<>>
    /\ m_pc = "done" =>
          IF /\ ManualRowGiven
             /\ Cell(ManualRow(m_data, m_row_num), ALDR_ID) # Empty
             /\ ManualListed # <<>>
          THEN /\ Len(m_sent) = 1
               /\ m_sent[1].victor_name = ManualListed[Len(ManualListed)]
               /\ m_sent[1].level_name = Cell(ManualRow(m_data, m_row_num), LEVEL_NAME)
          ELSE m_sent = <<>>

\* The manual sender has sent the last of two achievers of a level, both of
\* them already recorded for that level by the monitor.
C12_Witness ==
    /\ m_pc = "done"
    /\ Len(m_sent) = 1
    /\ Len(ManualListed) = 2
    /\ m_sent[1].victor_name = ManualListed[2]
    /\ first_check_done
    /\ Cell(ManualRow(m_data, m_row_num), ALDR_ID) \in DOMAIN previous_victors
    /\ Range(ManualListed) \subseteq previous_victors[Cell(ManualRow(m_data, m_row_num), ALDR_ID)]


\* The upper bounds of monitor.py:67-83, in tenths, and the tiers below them;
\* the last tier is the one of the else branch.
MonitorBounds == <<15, 25, 35, 45, 55, 65, 75, 85, 95>>
MonitorTiers ==
    <<T_easy, T_medium, T_hard, T_harder, T_insane, T_expert, T_extreme,
      T_madness, T_master, T_grandmaster>>

\* The upper bounds of send_manual.py:63-91, in tenths, and their tiers.
ManualBounds == <<10, 20, 30, 40, 50, 60, 70, 80, 90, 100, 110, 120, 130, 140, 150>>
ManualTiers ==
    <<T_effortless, T_easy, T_medium, T_hard, T_harder, T_insane, T_expert,
      T_extreme, T_madness, T_master, T_grandmaster, T_gm1, T_gm2, T_tas,
      T_tas1, T_tas2>>

\* The difficulty text as both classifiers look at it.
TierKey == Lower(Strip(t_text))

\* The text is classified by its number in both programs.
TierNumeric == TierKey \notin ManualNamed /\ ParseFloat(TierKey).ok

\* The classification of value v against a table of ascending upper bounds:
\* the tier of the first bound v is strictly below, the top tier if none.
StrictlyBelow(bounds, tiers, v, out) ==
    /\ \A i \in 1..Len(bounds) :
          (v < bounds[i] /\ \A j \in 1..(i - 1) : v >= bounds[j]) => out = Emoji(tiers[i])
    /\ \A i \in 1..Len(bounds) : v = bounds[i] => out = Emoji(tiers[i + 1])
    /\ v < bounds[1] => out = Emoji(tiers[1])
    /\ v >= bounds[Len(bounds)] => out = Emoji(tiers[Len(tiers)])

\* C13: on numeric input either classifier compares with strict '<' against
\* its ascending upper bounds: a value equal to a bound gets the tier just
\* above it, a value below the lowest bound the lowest tier, a value at or
\* above the highest bound the top tier.
C13_StrictBoundaries ==
    TierNumeric =>
        /\ t_monitor # Unset =>
              StrictlyBelow(MonitorBounds, MonitorTiers, ParseFloat(TierKey).tenths, t_monitor)
        /\ t_manual # Unset =>
              StrictlyBelow(ManualBounds, ManualTiers, ParseFloat(TierKey).tenths, t_manual)

\* The text '2.5', a bound of monitor.py, has been classified by both programs
\* and monitor.py gave it the tier above that bound.
C13_Witness ==
    /\ t_text = <<"2", ".", "5">>
    /\ t_monitor = Emoji(T_hard)
    /\ t_manual # Unset

\* C14: for a difficulty text that is neither a named tier (after trim and
\* lower-casing) nor a number, either classifier returns the text it was given,
\* not trimmed and not lower-cased.
C14_FallbackOriginal ==
    /\ (t_monitor # Unset /\ TierKey \notin MonitorNamed /\ ~ParseFloat(TierKey).ok) =>
          t_monitor = t_text
    /\ (t_manual # Unset /\ TierKey \notin ManualNamed /\ ~ParseFloat(TierKey).ok) =>
          t_manual = t_text

\* C15: for every numeric difficulty the classifier of the polling path and
\* the classifier of the manual sender return the same tier token.
C15_OneTable ==
    (TierNumeric /\ t_monitor # Unset /\ t_manual # Unset) => t_monitor = t_manual

=============================================================================
